---- MODULE Spec2Model ----
(***************************************************************************)
(* Model of the universal Facebook Ads server (UniversalFacebookAdsServer): *)
(* the shared execution path executeToolCall with its credential           *)
(* resolution, the session registry, the registration endpoint, the entry  *)
(* points that wrap executeToolCall, and the interactive-prompt wait.      *)
(*                                                                         *)
(* Node runs the server on one thread: a step of the model is the code     *)
(* that runs between two suspension points (an awaited network call, a     *)
(* timer, an event).                                                       *)
(***************************************************************************)
EXTENDS Integers, Sequences, FiniteSets, TLC

\* ------------------------------------------------------------------ values

\* undefined / null / an absent field
NONE == "none"

\* Bound: the number of stream connections (GET /mcp) opened in a run; every
\* connection gets a fresh sessionId 1, 2, ...
MaxSessions == 2

\* Bound: the stream connections opened in the runs that follow single tool
\* calls through executeToolCall
SoloSessions == 1

SessionIds == 1..MaxSessions

\* The requests that may be inside executeToolCall at the same time, and the
\* one the server handles when requests do not overlap
CallIds == {"c1", "c2"}
SoloCalls == {"c1"}

\* The stream on which overlapping messages are followed
SoloStreams == {1}

\* process.env.FACEBOOK_ACCESS_TOKEN when it is configured
EnvToken == "T_env"
\* TokenStorage.getToken() when a token is stored locally
LocalToken == "T_local"
\* tokens the external token service may answer with
ServiceTokens == {"T_a"}

\* session identifier of a registration request (header 'session-id' or cookie)
HeaderSessionIds == {"h1"}
\* user_id of a registration request
UserIds == {"u1"}
\* session_id the fallback lookup may answer with
FallbackSessionIds == {"f1"}

\* messages a tool handler may raise with
HandlerMessages == {"Facebook API error"}

\* JavaScript truthiness of a string-or-undefined value
Truthy(v) == v # NONE /\ v # ""

\* ------------------------------------------------------------ tool schemas

\* Object.keys(TOOL_SCHEMAS): the static catalogue
CatalogueTools ==
    { "facebook_list_ad_accounts", "facebook_fetch_pagination_url",
      "facebook_get_details_of_ad_account", "facebook_get_adaccount_insights",
      "facebook_get_activities_by_adaccount", "facebook_get_ad_creatives" }

\* TOOL_SCHEMAS[tool].required
RequiredParams(tool) ==
    CASE tool = "facebook_list_ad_accounts" -> {}
      [] tool = "facebook_fetch_pagination_url" -> {"url"}
      [] tool = "facebook_get_details_of_ad_account" -> {"act_id"}
      [] tool = "facebook_get_adaccount_insights" -> {"act_id", "fields"}
      [] tool = "facebook_get_activities_by_adaccount" -> {"act_id"}
      [] tool = "facebook_get_ad_creatives" -> {"ad_ids"}
      [] OTHER -> {}

\* Object.keys(TOOL_SCHEMAS[tool].properties)
Properties(tool) ==
    CASE tool = "facebook_list_ad_accounts" -> {"organization_id"}
      [] tool = "facebook_fetch_pagination_url" -> {"url", "organization_id"}
      [] tool = "facebook_get_details_of_ad_account" -> {"act_id", "fields", "organization_id"}
      [] tool = "facebook_get_adaccount_insights" ->
            {"act_id", "fields", "date_preset", "level", "action_attribution_windows",
             "action_breakdowns", "breakdowns", "time_range", "limit", "sort", "after",
             "before", "time_increment", "organization_id"}
      [] tool = "facebook_get_activities_by_adaccount" ->
            {"act_id", "fields", "since", "until", "time_range", "limit", "after",
             "before", "organization_id"}
      [] tool = "facebook_get_ad_creatives" -> {"ad_ids", "include_images", "organization_id"}
      [] OTHER -> {}

\* TOOL_SCHEMAS[tool].properties[param].type, for the parameters the modelled
\* requests use
ParamTypes(tool, param) ==
    CASE param = "organization_id" -> {"string"}
      [] param = "url" /\ tool = "facebook_fetch_pagination_url" -> {"string"}
      [] param = "act_id" /\ tool \in CatalogueTools \ {"facebook_list_ad_accounts",
                 "facebook_fetch_pagination_url", "facebook_get_ad_creatives"} -> {"string"}
      [] param = "fields" /\ tool \in {"facebook_get_details_of_ad_account",
                 "facebook_get_adaccount_insights",
                 "facebook_get_activities_by_adaccount"} -> {"array"}
      [] OTHER -> {}

\* The arguments of a request: a mapping from parameter names to values, a
\* value being its JSON type and its content.
Str(s) == [type |-> "string", val |-> s]
ArgsEmpty == [p \in {} |-> Str("")]
ArgsOrg == [p \in {"organization_id"} |-> Str("o1")]
ArgsOrg2 == [p \in {"organization_id"} |-> Str("o2")]
ArgsOrgBlank == [p \in {"organization_id"} |-> Str("")]
ArgsOrgUrl == [p \in {"organization_id", "url"} |-> IF p = "url" THEN Str("next") ELSE Str("o1")]
ArgsOrgUrlNumber ==
    [p \in {"organization_id", "url"} |->
        IF p = "url" THEN [type |-> "number", val |-> "7"] ELSE Str("o1")]

\* args.<param>, undefined when the request does not carry it
Arg(args, param) == IF param \in DOMAIN args THEN args[param].val ELSE NONE

\* What a validation of args against TOOL_SCHEMAS[tool] would find: the
\* required parameters that are missing and the parameters of a wrong type.
SchemaViolations(tool, args) ==
    (RequiredParams(tool) \ DOMAIN args)
      \cup {p \in DOMAIN args : args[p].type \notin ParamTypes(tool, p)}

\* ------------------------------------------------------- JSON-RPC ids

\* The id of a JSON-RPC message: a number or a string; a message without an
\* id (a notification) has id undefined.
Num(n) == [type |-> "number", val |-> n]
NoId == [type |-> "undefined", val |-> ""]

\* The ids the modelled callers supply with their requests
JsonRpcIds == {Num("7"), Num("0"), Str("")}

\* JavaScript truthiness of an id: undefined, 0 and '' are falsy
IdTruthy(id) ==
    /\ id.type # "undefined"
    /\ ~(id.type = "number" /\ id.val = "0")
    /\ ~(id.type = "string" /\ id.val = "")

\* `req.body.id || 0`
IdOrZero(id) == IF IdTruthy(id) THEN id ELSE Num("0")

\* --------------------------------------------------------------- requests

\* The entry points that reach executeToolCall: the MCP SDK's tools/call
\* handler, POST /openai/functions, POST /gemini/functions, the REST routes
\* POST /tools/<name>, and POST /test-manifest/:variant.
Entries == {"mcp", "openai", "gemini", "rest", "testManifest"}

\* The tool names for which a route POST /tools/<name> is registered
RestTools ==
    CatalogueTools \cup
    { "facebook_login", "facebook_logout", "facebook_check_auth",
      "facebook_get_campaign_details", "facebook_get_adset_details",
      "facebook_get_creative_asset_url_by_ad_id" }

\* Tool names the modelled callers ask for
RequestTools ==
    { "facebook_list_ad_accounts", "facebook_fetch_pagination_url",
      "facebook_get_ad_thumbnails", "_list_tools", "facebook_login" }

\* Argument mappings the modelled callers send
RequestArgs == {ArgsEmpty, ArgsOrg, ArgsOrgBlank, ArgsOrgUrl, ArgsOrgUrlNumber}

\* ------------------------------------------------------------------ state

VARIABLES
    envToken,                   \* process.env.FACEBOOK_ACCESS_TOKEN
    localToken,                 \* what TokenStorage.getToken() returns
    nSessions,                  \* stream connections opened so far
    activeSseTransport,         \* sessionId of this.activeSseTransport, 0: undefined
    sessionUserMap,             \* this.sessionUserMap; key 0 is the key undefined
    currentFacebookAccessToken, \* this.currentFacebookAccessToken
    messageBus,                 \* this.messageBus: "undefined" or "emitter"
    calls,                      \* the executeToolCall invocations in flight
    reg,                        \* the POST /trigger-token-fetch request in flight
    waits,                      \* the waitForUserResponse invocations
    initialized,                \* the sessions whose initialize request was answered
    closedStreams,              \* the streams whose client has disconnected
    diag,                       \* the answer of the last read-only GET request
    process,                    \* the Node process: "running" or "terminated"
    fetch                       \* the fetchFacebookAccessToken invocation in flight

vars == << envToken, localToken, nSessions, activeSseTransport, sessionUserMap,
           currentFacebookAccessToken, messageBus, calls, reg, waits, initialized,
           closedStreams, diag, process, fetch >>

NoOutcome == [kind |-> "none", name |-> "", msg |-> << >>]
NoResponse == [status |-> 0, kind |-> "none", code |-> 0, message |-> << >>, id |-> NoId]

\* One request at an entry point: where its handler stands, the JSON-RPC
\* method and id it carried (session-oriented entry points), the stream
\* session it was sent for and the stream whose transport took it (0: none),
\* the locals of executeToolCall, what the call did so far, and the outcome
\* and the response.
IdleCall ==
    [ pc |-> "idle", entry |-> NONE, method |-> NONE, id |-> NoId,
      session |-> 0, via |-> 0, toolName |-> NONE, args |-> ArgsEmpty,
      sessionUser |-> NONE, userId |-> NONE, token |-> NONE, raised |-> << >>,
      prompts |-> 0, fallbackCalls |-> 0, tokenCalls |-> 0, handlerCalls |-> 0,
      outcome |-> NoOutcome, response |-> NoResponse ]

\* The registration request in flight: where its handler stands, the status
\* it answered with, and the user_id and session identifier of a request that
\* passed the two 400 checks.
\* No read-only GET request has been answered yet
NoAnswer == [kind |-> "none", status |-> 0, query |-> NONE, body |-> {}]

\* An invocation of fetchFacebookAccessToken(userId): where it is, its
\* argument, how often it read the token store and called the token service,
\* and how it ended
IdleFetch ==
    [ pc |-> "idle", userId |-> NONE, storageReads |-> 0, networkCalls |-> 0,
      outcome |-> NoOutcome ]

IdleReg == [pc |-> "idle", status |-> 0, user_id |-> NONE, sessionId |-> NONE]

\* The invocations of waitForUserResponse that may be pending at the same time
WaitIds == {"w1", "w2"}

\* A promise that has not settled, one resolved with a message's content, one
\* rejected with an error
Unsettled == [kind |-> "none", name |-> "", msg |-> << >>, content |-> NONE]
Resolved(content) == [kind |-> "resolved", name |-> "", msg |-> << >>, content |-> content]
Rejected(name, msg) == [kind |-> "rejected", name |-> name, msg |-> msg, content |-> NONE]

\* An invocation of waitForUserResponse: the sessionId it captured, whether
\* its onUserMessage listener is on the bus, whether its setTimeout timer is
\* pending, and the state of the promise it returned.
IdleWait ==
    [ pc |-> "idle", sessionId |-> 0, listener |-> FALSE, timer |-> FALSE,
      promise |-> Unsettled ]

\* The state after `new UniversalFacebookAdsServer()`: the constructor sets
\* currentFacebookAccessToken to null and sessionUserMap to an empty Map, and
\* assigns neither activeSseTransport nor messageBus. The environment token
\* and the local token store are the process's surroundings.
InitServer ==
    /\ envToken \in {NONE, EnvToken}
    /\ localToken \in {NONE, LocalToken}
    /\ nSessions = 0
    /\ activeSseTransport = 0
    /\ sessionUserMap = << >>
    /\ currentFacebookAccessToken = NONE
    /\ calls = [c \in CallIds |-> IdleCall]
    /\ reg = IdleReg
    /\ waits = [w \in WaitIds |-> IdleWait]
    /\ initialized = {}
    /\ closedStreams = {}
    /\ diag = NoAnswer
    /\ process = "running"
    /\ fetch = IdleFetch

Init ==
    /\ InitServer
    /\ messageBus = "undefined"

\* ------------------------------------------------- stream connections

\* GET /mcp (the first route registered for it): a new SSEServerTransport,
\* with a fresh sessionId, replaces this.activeSseTransport.
ConnectSse ==
    /\ nSessions < MaxSessions
    /\ nSessions' = nSessions + 1
    /\ activeSseTransport' = nSessions + 1
    /\ UNCHANGED << fetch, envToken, localToken, sessionUserMap, currentFacebookAccessToken,
                    messageBus, calls, reg, waits,
                    initialized,
                    closedStreams, diag, process >>

\* --------------------------------------------------- the entry points

Err(name, msg) == [kind |-> "error", name |-> name, msg |-> msg]
Ok == [kind |-> "ok", name |-> "", msg |-> << >>]

\* adapter.formatError(error) of the OpenAI and Gemini adapters: the
\* convention's error envelope, carrying the error's message.
AdapterFormatError(entry, outcome) ==
    [status |-> 500, kind |-> "error", code |-> 0, message |-> outcome.msg, id |-> NoId]

\* adapter.formatResponse(result, ...) of the MCP, OpenAI and Gemini adapters
AdapterFormatResponse(entry, outcome) ==
    [status |-> 200, kind |-> "result", code |-> 0, message |-> << >>, id |-> NoId]

\* What the entry point answers once executeToolCall has settled: the try
\* branch on a result, the catch branch on a thrown error.
EntryResponse(entry, outcome) ==
    CASE entry \in {"openai", "gemini"} ->
            IF outcome.kind = "ok" THEN AdapterFormatResponse(entry, outcome)
            ELSE AdapterFormatError(entry, outcome)
      [] entry = "mcp" ->
            \* the handler rethrows; the SDK answers with a JSON-RPC error
            IF outcome.kind = "ok" THEN AdapterFormatResponse(entry, outcome)
            ELSE [status |-> 200, kind |-> "error", code |-> -32603, message |-> outcome.msg, id |-> NoId]
      [] entry = "rest" ->
            IF outcome.kind = "ok"
            THEN [status |-> 200, kind |-> "result", code |-> 0, message |-> << >>, id |-> NoId]
            ELSE [status |-> 500, kind |-> "error", code |-> 0, message |-> outcome.msg, id |-> NoId]
      [] entry = "testManifest" ->
            IF outcome.kind = "ok"
            THEN [status |-> 200, kind |-> "result", code |-> 0, message |-> << >>, id |-> NoId]
            ELSE [status |-> 500, kind |-> "error", code |-> -32603, message |-> outcome.msg, id |-> NoId]
      [] entry = "sse" ->
            \* transport.send(...) on the stream: no HTTP status of its own
            IF outcome.kind = "ok"
            THEN [status |-> 0, kind |-> "result", code |-> 0, message |-> << >>, id |-> NoId]
            ELSE [status |-> 0, kind |-> "error", code |-> -32603, message |-> outcome.msg, id |-> NoId]

\* A change of Caught: no entry point catches what executeToolCall throws.
CaughtNowhere(entry) == FALSE

\* Whether the entry point awaits executeToolCall inside a try block with a
\* catch branch that writes the error response (the CallTool handler rethrows
\* into the SDK's request handling, which answers with a JSON-RPC error).
Caught(entry) == entry \in Entries \cup {"sse"}

\* The process after a step of a request handler: an error that leaves an
\* async handler uncaught is an unhandled rejection, and the
\* 'unhandledRejection' listener calls process.exit(1).
ProcessAfter(cs) ==
    IF \E c \in DOMAIN cs :
          cs[c].pc = "done" /\ cs[c].outcome.kind = "error" /\ ~Caught(cs[c].entry)
    THEN "terminated"
    ELSE "running"

\* A change of ResponseId: every response is written with the id 0.
ResponseIdZero(call, outcome) == Num("0")

\* The id written into the response of a settled tools/call: message.id in the
\* try branches and in the catch of the stream handlers, `req.body.id || 0` in
\* the catch of POST /test-manifest/:variant. POST /openai/functions passes the
\* request's toolCallId to formatResponse and nothing but the error to
\* formatError; the other entry points write no identifier themselves.
ResponseId(call, outcome) ==
    CASE call.entry = "testManifest" ->
            IF outcome.kind = "error" THEN IdOrZero(call.id) ELSE call.id
      [] call.entry = "sse" -> call.id
      [] call.entry = "openai" ->
            \* formatResponse(result, normalized.toolCallId) / formatError(error)
            IF outcome.kind = "error" THEN NoId ELSE call.id
      [] OTHER -> NoId

\* executeToolCall has settled with `outcome`: its locals are gone and the
\* entry point writes its response.
Settle(call, outcome) ==
    [call EXCEPT !.pc = "done", !.outcome = outcome,
                 !.sessionUser = NONE, !.userId = NONE, !.token = NONE,
                 !.response = [EntryResponse(call.entry, outcome) EXCEPT
                                  !.id = ResponseId(call, outcome)]]

\* ------------------------------------------------------ executeToolCall

\* A change of OrganizationIdMissing: the check for a missing organization_id
\* is left out, so every call goes on to identity resolution.
OrganizationIdNeverMissing(args) == FALSE

\* `if (!organizationId)` on args.organization_id
OrganizationIdMissing(args) == ~Truthy(Arg(args, "organization_id"))

\* askOrganizationId(): its first statement calls sendMessageToUser as a free
\* function; no such binding exists in the module (the method lives on the
\* class), so the call throws a ReferenceError before any message is sent and
\* before waitForUserResponse is reached.
AskOrganizationId(call) ==
    Settle(call, Err("ReferenceError", <<"sendMessageToUser is not defined">>))

\* sessionUserMap.get(sessionId): undefined when the key is not in the map
SessionLookup(map, sessionId) ==
    IF sessionId \in DOMAIN map THEN map[sessionId] ELSE NONE

\* A change of ResolvedFromSession: a registered caller is not returned and
\* resolution always goes on to the fallback lookup.
NeverResolvedFromSession(user) == FALSE

\* resolveUserIdFromSessionOrOrg: `if (user_id) return user_id`
ResolvedFromSession(user) == Truthy(user)

\* A change of IssueTokenFetch: the request to the token service is sent a
\* second time.
IssueTokenFetchTwice(call, userId) ==
    [call EXCEPT !.pc = "awaitToken", !.userId = userId,
                 !.tokenCalls = call.tokenCalls + 2]

\* fetchLatestFacebookAccessToken(userId) up to its awaited fetch
IssueTokenFetch(call, userId) ==
    [call EXCEPT !.pc = "awaitToken", !.userId = userId,
                 !.tokenCalls = call.tokenCalls + 1]

\* resolveUserIdFromSessionOrOrg(sessionUserMap, sessionId, organizationId)
\* up to its first suspension: the session lookup, then either the token fetch
\* for the registered caller or the fallback lookup by organization.
ResolveUserId(call, map, sessionId) ==
    LET user == SessionLookup(map, sessionId)
        c1 == [call EXCEPT !.sessionUser = user]
    IN  IF ResolvedFromSession(user)
        THEN IssueTokenFetch(c1, user)
        ELSE IF ~Truthy(Arg(call.args, "organization_id"))
        THEN Settle(c1, Err("Error",
                            <<"Organization ID is required for fallback resolution.">>))
        ELSE [c1 EXCEPT !.pc = "awaitFallback",
                        !.fallbackCalls = call.fallbackCalls + 1]

\* executeToolCall({toolName, args}) up to its first suspension
BeginExecute(call, map, sessionId) ==
    IF OrganizationIdMissing(call.args)
    THEN AskOrganizationId(call)
    ELSE ResolveUserId(call, map, sessionId)

\* A request arrives at an entry point, which calls executeToolCall.
StartCall(c, entry, tool, args) ==
    /\ calls[c].pc = "idle"
    /\ entry = "rest" => tool \in RestTools
    /\ calls' = [calls EXCEPT ![c] =
                    BeginExecute([IdleCall EXCEPT !.entry = entry, !.toolName = tool,
                                                  !.args = args],
                                 sessionUserMap, activeSseTransport)]
    /\ UNCHANGED << fetch, envToken, localToken, nSessions, activeSseTransport, sessionUserMap,
                    currentFacebookAccessToken, messageBus, reg, waits,
                    initialized,
                    closedStreams, diag >>
    /\ process' = ProcessAfter(calls')

\* The answers of GET /mcp-api/get_latest_session_by_org_id
FallbackResponses ==
    { [kind |-> "transportError", ok |-> FALSE, success |-> FALSE, user_id |-> NONE, session_id |-> NONE],
      [kind |-> "http", ok |-> FALSE, success |-> FALSE, user_id |-> NONE, session_id |-> NONE],
      [kind |-> "http", ok |-> TRUE, success |-> FALSE, user_id |-> NONE, session_id |-> NONE],
      [kind |-> "http", ok |-> TRUE, success |-> TRUE, user_id |-> NONE, session_id |-> "f1"],
      [kind |-> "http", ok |-> TRUE, success |-> TRUE, user_id |-> "u1", session_id |-> NONE] }
    \cup { [kind |-> "http", ok |-> TRUE, success |-> TRUE, user_id |-> "u1", session_id |-> f] :
              f \in FallbackSessionIds }

\* The identity resolveUserIdFromSessionOrOrg returns from a fallback answer
FallbackIdentity(r) == r.session_id

\* A change of FallbackSettles: a failed fallback lookup is not noticed and
\* the call goes on to the token service.
FallbackSettlesUnchecked(call, r) == IssueTokenFetch(call, FallbackIdentity(r))

\* resolveUserIdFromSessionOrOrg after the fallback lookup answered
FallbackSettles(call, r) ==
    IF r.kind = "transportError" THEN Settle(call, Err("TypeError", <<"fetch failed">>))
    ELSE IF ~r.ok THEN Settle(call, Err("Error", <<"HTTP error from fallback API">>))
    ELSE IF ~r.success \/ ~Truthy(r.user_id)
         THEN Settle(call, Err("Error", <<"No valid session found for organization ID.">>))
    ELSE IssueTokenFetch(call, FallbackIdentity(r))

FallbackReply(c, r) ==
    /\ calls[c].pc = "awaitFallback"
    /\ calls' = [calls EXCEPT ![c] = FallbackSettles(calls[c], r)]
    /\ UNCHANGED << fetch, envToken, localToken, nSessions, activeSseTransport, sessionUserMap,
                    currentFacebookAccessToken, messageBus, reg, waits,
                    initialized,
                    closedStreams, diag >>
    /\ process' = ProcessAfter(calls')

\* The answers of GET /mcp-api/facebook_token_by_user
TokenResponses ==
    { [kind |-> "transportError", ok |-> FALSE, success |-> FALSE, token |-> NONE],
      [kind |-> "http", ok |-> FALSE, success |-> FALSE, token |-> NONE],
      [kind |-> "http", ok |-> TRUE, success |-> FALSE, token |-> "T_a"],
      [kind |-> "http", ok |-> TRUE, success |-> TRUE, token |-> NONE] }
    \cup { [kind |-> "http", ok |-> TRUE, success |-> TRUE, token |-> t] : t \in ServiceTokens }

\* A change of TokenError: no answer of the token service counts as an error.
TokenErrorIgnored(r) == Ok

\* fetchLatestFacebookAccessToken: the error it throws on an answer, if any
TokenError(r) ==
    IF r.kind = "transportError" THEN Err("TypeError", <<"fetch failed">>)
    ELSE IF ~r.ok THEN Err("Error", <<"Failed to fetch Facebook token">>)
    ELSE IF r.success /\ Truthy(r.token) THEN Ok
    ELSE Err("Error", <<"Token not present in response">>)

\* fetchLatestFacebookAccessToken after the token service answered: it stores
\* the token in this.currentFacebookAccessToken or rethrows.
TokenReply(c, r) ==
    /\ calls[c].pc = "awaitToken"
    /\ IF TokenError(r).kind = "ok"
       THEN /\ currentFacebookAccessToken' = r.token
            /\ calls' = [calls EXCEPT ![c].pc = "dispatch"]
       ELSE /\ currentFacebookAccessToken' = currentFacebookAccessToken
            /\ calls' = [calls EXCEPT ![c] = Settle(calls[c], TokenError(r))]
    /\ UNCHANGED << fetch, envToken, localToken, nSessions, activeSseTransport, sessionUserMap,
                    messageBus, reg, waits,
                    initialized,
                    closedStreams, diag >>
    /\ process' = ProcessAfter(calls')

\* A change of HandledTools: the switch has no case for one catalogue tool.
HandledToolsShort == CatalogueTools \ {"facebook_fetch_pagination_url"}

\* The cases of executeToolCall's switch that call a tool handler
HandledTools ==
    { "facebook_list_ad_accounts", "facebook_fetch_pagination_url",
      "facebook_get_details_of_ad_account", "facebook_get_adaccount_insights",
      "facebook_get_activities_by_adaccount", "facebook_get_ad_creatives" }

\* executeToolCall's switch on toolName, entered when the awaited token fetch
\* has returned: a handler is called with the args as they came and with
\* this.currentFacebookAccessToken as it is now.
DispatchOutcome(call, cur) ==
    CASE call.toolName \in HandledTools ->
            [call EXCEPT !.pc = "awaitHandler",
                         !.handlerCalls = call.handlerCalls + 1,
                         !.token = cur]
      [] call.toolName = "facebook_get_ad_thumbnails" ->
            Settle(call, Err("Error",
                             <<"get_ad_thumbnails_embedded tool is temporarily disabled">>))
      [] call.toolName = "_list_tools" -> Settle(call, Ok)
      [] OTHER -> Settle(call, Err("Error", <<"Unknown tool: ", call.toolName>>))

Dispatch(c) ==
    /\ calls[c].pc = "dispatch"
    /\ calls' = [calls EXCEPT ![c] = DispatchOutcome(calls[c], currentFacebookAccessToken)]
    /\ UNCHANGED << fetch, envToken, localToken, nSessions, activeSseTransport, sessionUserMap,
                    currentFacebookAccessToken, messageBus, reg, waits,
                    initialized,
                    closedStreams, diag >>
    /\ process' = ProcessAfter(calls')

\* What a tool handler does with (args, token): it returns a result or raises
HandlerResults ==
    {[raised |-> FALSE, msg |-> << >>]} \cup {[raised |-> TRUE, msg |-> <<m>>] : m \in HandlerMessages}

\* A change of HandlerOutcome: a raised error is caught and the call returns
\* normally.
HandlerOutcomeSwallowed(r) == Ok

\* `return await handler(args, token)`: a raised error leaves executeToolCall
\* as it is.
HandlerOutcome(r) == IF r.raised THEN Err("Error", r.msg) ELSE Ok

HandlerReply(c, r) ==
    /\ calls[c].pc = "awaitHandler"
    /\ calls' = [calls EXCEPT ![c] =
                    Settle([calls[c] EXCEPT !.raised = r.msg], HandlerOutcome(r))]
    /\ UNCHANGED << fetch, envToken, localToken, nSessions, activeSseTransport, sessionUserMap,
                    currentFacebookAccessToken, messageBus, reg, waits,
                    initialized,
                    closedStreams, diag >>
    /\ process' = ProcessAfter(calls')

\* The response has been written; the request is over.
FinishCall(c) ==
    /\ calls[c].pc = "done"
    /\ calls' = [calls EXCEPT ![c] = IdleCall]
    /\ UNCHANGED << fetch, envToken, localToken, nSessions, activeSseTransport, sessionUserMap,
                    currentFacebookAccessToken, messageBus, reg, waits,
                    initialized,
                    closedStreams, diag, process >>

\* ------------------------------------- the session-oriented entry points

\* Tools and arguments of the modelled tools/call messages
RpcTools == {"facebook_list_ad_accounts"}
RpcArgs == {ArgsEmpty, ArgsOrg}

\* The messages the modelled callers send: the handshake, the two tool methods
\* and a method no handler knows, each with an id, and the one-way
\* acknowledgment, which carries none; only tools/call has params.name and
\* params.arguments.
RpcMessages ==
    [method : {"initialize", "tools/list", "resources/list"}, id : JsonRpcIds,
     toolName : {NONE}, args : {ArgsEmpty}]
    \cup [method : {"notifications/initialized"}, id : {NoId},
          toolName : {NONE}, args : {ArgsEmpty}]
    \cup [method : {"tools/call"}, id : JsonRpcIds, toolName : RpcTools, args : RpcArgs]

\* The request as the handler holds it
Received(entry, session, via, m) ==
    [IdleCall EXCEPT !.entry = entry, !.method = m.method, !.id = m.id,
                     !.session = session, !.via = via,
                     !.toolName = m.toolName, !.args = m.args]

\* The handler answers without calling executeToolCall.
Respond(call, response) == [call EXCEPT !.pc = "done", !.response = response]

\* A JSON-RPC result / error body with the given id
RpcResult(status, id) ==
    [status |-> status, kind |-> "result", code |-> 0, message |-> << >>, id |-> id]
RpcError(status, code, msg, id) ==
    [status |-> status, kind |-> "error", code |-> code, message |-> msg, id |-> id]

\* The session a message belongs to, as far as the handshake goes: the stream
\* session, or 0 for the sessionless POST /test-manifest/:variant.
Place(call) == IF call.entry = "testManifest" THEN 0 ELSE call.session

\* POST /test-manifest/:variant: the if-chain on message.method. There is no
\* branch for notifications/initialized: it gets the method-not-found answer.
ManifestHandler(call, map, sessionId) ==
    CASE call.method = "initialize" -> Respond(call, RpcResult(200, call.id))
      [] call.method = "tools/list" -> Respond(call, RpcResult(200, call.id))
      [] call.method = "tools/call" -> BeginExecute(call, map, sessionId)
      [] OTHER -> Respond(call, RpcError(200, -32601,
                                         <<"Method not found: ", call.method>>, call.id))

ManifestMessage(c, m) ==
    /\ calls[c].pc = "idle"
    /\ calls' = [calls EXCEPT ![c] =
                    ManifestHandler(Received("testManifest", 0, 0, m),
                                    sessionUserMap, activeSseTransport)]
    /\ initialized' = IF m.method = "initialize" THEN initialized \cup {0} ELSE initialized
    /\ UNCHANGED << fetch, envToken, localToken, nSessions, activeSseTransport, sessionUserMap,
                    currentFacebookAccessToken, messageBus, reg, waits,
                    closedStreams, diag >>
    /\ process' = ProcessAfter(calls')

\* transport.onmessage of the stream opened by GET /mcp/sse: the if-chain on
\* message.method has the three request methods and no else branch, so any
\* other message (the initialized acknowledgment included) is dropped without
\* an answer. Every answer goes out with transport.send on the handler's own
\* stream.
SseHandler(call, map, sessionId) ==
    CASE call.method = "initialize" -> Respond(call, RpcResult(0, call.id))
      [] call.method = "tools/list" -> Respond(call, RpcResult(0, call.id))
      [] call.method = "tools/call" -> BeginExecute(call, map, sessionId)
      [] OTHER -> Respond(call, NoResponse)

SseMessage(c, sid, m) ==
    /\ calls[c].pc = "idle"
    /\ calls' = [calls EXCEPT ![c] =
                    SseHandler(Received("sse", sid, sid, m),
                               sessionUserMap, activeSseTransport)]
    /\ initialized' = IF m.method = "initialize" THEN initialized \cup {sid} ELSE initialized
    /\ UNCHANGED << fetch, envToken, localToken, nSessions, activeSseTransport, sessionUserMap,
                    currentFacebookAccessToken, messageBus, reg, waits,
                    closedStreams, diag >>
    /\ process' = ProcessAfter(calls')

\* The messages of POST /mcp that reach a request handler registered in
\* setupMCPHandlers
McpMessages == {m \in RpcMessages : m.method \in {"tools/list", "tools/call"}}

\* POST /mcp (the first route registered for it), sent by the client of the
\* stream `sid` (0: a client that opened none): without an active transport it
\* answers 500; otherwise this.activeSseTransport.handlePostMessage takes the
\* message, whichever stream the request names, and the server's ListTools or
\* CallTool handler runs.
PostMcpHandler(call, map, active) ==
    IF active = 0
    THEN [ Respond(call, RpcError(500, 0, <<"MCP POST failed">>, NoId))
             EXCEPT !.outcome = Err("Error", <<"SSE connection not established">>) ]
    ELSE IF call.method = "tools/call"
    THEN BeginExecute(call, map, active)
    ELSE Respond(call, RpcResult(200, NoId))

PostMcp(c, sid, m) ==
    /\ calls[c].pc = "idle"
    /\ sid \in 0..nSessions
    /\ sid = 0 <=> nSessions = 0
    /\ calls' = [calls EXCEPT ![c] =
                    PostMcpHandler(Received("mcp", sid, activeSseTransport,
                                            [m EXCEPT !.id = NoId]),
                                   sessionUserMap, activeSseTransport)]
    /\ UNCHANGED << fetch, envToken, localToken, nSessions, activeSseTransport, sessionUserMap,
                    currentFacebookAccessToken, messageBus, reg, waits, initialized,
                    closedStreams, diag >>
    /\ process' = ProcessAfter(calls')

\* ------------------------------------- the adapters' request envelopes

\* The call identifiers the modelled function-calling requests carry
ToolCallIds == {"call_1", "call_2"}

\* The wire envelopes of the modelled requests: the tool's name (absent in a
\* malformed envelope), its arguments, and the caller's call identifier.
Envelopes ==
    [ name : {NONE, "facebook_list_ad_accounts"}, arguments : {ArgsOrg, ArgsOrg2},
      callId : ToolCallIds ]

\* A change of WellFormed: parseRequest accepts every envelope.
WellFormedAlways(envelope) == TRUE

\* adapter.parseRequest(raw): it fails with MalformedRequest when a required
\* field of the envelope is absent.
WellFormed(envelope) == Truthy(envelope.name)

\* The canonical call parseRequest returns; only the OpenAI convention has a
\* call identifier (normalized.toolCallId).
ParseRequest(entry, envelope) ==
    [IdleCall EXCEPT !.entry = entry,
                     !.id = IF entry = "openai" THEN Str(envelope.callId) ELSE NoId,
                     !.toolName = envelope.name, !.args = envelope.arguments]

\* POST /openai/functions, POST /gemini/functions and the CallTool handler:
\* parseRequest runs inside the try block, before executeToolCall; what it
\* throws goes to the catch branch.
AdapterHandler(entry, envelope, map, sessionId) ==
    IF WellFormed(envelope)
    THEN BeginExecute(ParseRequest(entry, envelope), map, sessionId)
    ELSE Settle([IdleCall EXCEPT !.entry = entry],
                Err("MalformedRequest", <<"Malformed request">>))

AdapterRequest(c, entry, envelope) ==
    /\ calls[c].pc = "idle"
    /\ calls' = [calls EXCEPT ![c] =
                    AdapterHandler(entry, envelope, sessionUserMap, activeSseTransport)]
    /\ UNCHANGED << fetch, envToken, localToken, nSessions, activeSseTransport, sessionUserMap,
                    currentFacebookAccessToken, messageBus, reg, waits, initialized,
                    closedStreams, diag >>
    /\ process' = ProcessAfter(calls')

\* The credential service seen as a function of what it is asked: the latest
\* session of an organization, and the token of a session.
OrgSession(org) == IF org = "o1" THEN "f1" ELSE "f2"
IdentityToken(identity) == IF identity = "f1" THEN "T_a" ELSE "T_b"

\* The fallback lookup's answers to a call: a failure, or the latest session of
\* the call's organization
OrgFallbackResponses(call) ==
    { [kind |-> "http", ok |-> FALSE, success |-> FALSE, user_id |-> NONE, session_id |-> NONE],
      [kind |-> "http", ok |-> TRUE, success |-> TRUE, user_id |-> "u1",
       session_id |-> OrgSession(Arg(call.args, "organization_id"))] }

\* The token service's answers to a call: a failure, or the token of the
\* identity the call asked for
IdentityTokenResponses(call) ==
    { [kind |-> "http", ok |-> FALSE, success |-> FALSE, token |-> NONE],
      [kind |-> "http", ok |-> TRUE, success |-> TRUE, token |-> IdentityToken(call.userId)] }

\* ------------------------------------------- POST /trigger-token-fetch

\* A change of RegistrySet: the registry is rebuilt with the new entry alone.
RegistrySetAlone(map, key, value) == [k \in {key} |-> value]

\* A change of RegistrySet: the write is left out.
RegistrySetSkipped(map, key, value) == map

\* Map.prototype.set(key, value): the entry for key is added or its value
\* replaced; every other entry stays.
RegistrySet(map, key, value) ==
    [k \in DOMAIN map \cup {key} |-> IF k = key THEN value ELSE map[k]]

\* The bodies and headers the modelled registration requests carry
RegRequests ==
    [ access_token : {NONE, "at"}, user_id : {NONE} \cup UserIds,
      sessionId : {NONE} \cup HeaderSessionIds ]

\* A change of RegRejected: no registration request is rejected.
RegRejectedNever(q) == FALSE

\* The two 400 checks: access_token or user_id missing in the body, or no
\* session id in the session-id header or the session_id cookie
RegRejected(q) ==
    ~Truthy(q.access_token) \/ ~Truthy(q.user_id) \/ ~Truthy(q.sessionId)

\* The handler up to its first suspension: the two 400 checks, then
\* sessionUserMap.set(this.activeSseTransport?.sessionId, sessionId) and the
\* POST to /mcp-api/save_user_session.
TriggerTokenFetch(q) ==
    /\ reg.pc = "idle"
    /\ IF RegRejected(q)
       THEN /\ reg' = [IdleReg EXCEPT !.pc = "done", !.status = 400]
            /\ sessionUserMap' = sessionUserMap
       ELSE /\ reg' = [pc |-> "awaitSave", status |-> 0,
                        user_id |-> q.user_id, sessionId |-> q.sessionId]
            /\ sessionUserMap' = RegistrySet(sessionUserMap, activeSseTransport, q.sessionId)
    /\ UNCHANGED << fetch, envToken, localToken, nSessions, activeSseTransport,
                    currentFacebookAccessToken, messageBus, calls, waits,
                    initialized,
                    closedStreams, diag, process >>

\* The credential service's answers to save_user_session
SaveResponses == {"transportError", "success", "failure"}

\* The handler after the save answered: 200 on success, else 500
SaveSessionReply(r) ==
    /\ reg.pc = "awaitSave"
    /\ reg' = [reg EXCEPT !.pc = "done",
                          !.status = IF r = "success" THEN 200 ELSE 500]
    /\ UNCHANGED << fetch, envToken, localToken, nSessions, activeSseTransport, sessionUserMap,
                    currentFacebookAccessToken, messageBus, calls, waits,
                    initialized,
                    closedStreams, diag, process >>

\* The response has been written; the request is over.
FinishReg ==
    /\ reg.pc = "done"
    /\ reg' = IdleReg
    /\ UNCHANGED << fetch, envToken, localToken, nSessions, activeSseTransport, sessionUserMap,
                    currentFacebookAccessToken, messageBus, calls, waits,
                    initialized,
                    closedStreams, diag, process >>

\* ------------------------------------------- streams closing, the process

\* The client of an open stream disconnects. No route registers a close
\* listener for the stream and nothing resets this.activeSseTransport: the
\* server's state stays as it is.
CloseStream(sid) ==
    /\ sid \in 1..nSessions
    /\ sid \notin closedStreams
    /\ closedStreams' = closedStreams \cup {sid}
    /\ UNCHANGED << fetch, envToken, localToken, nSessions, activeSseTransport, sessionUserMap,
                    currentFacebookAccessToken, messageBus, calls, reg, waits,
                    initialized, diag, process >>

\* An exception or a rejection that no request handler owns reaches the
\* process-level listeners, which log and call process.exit(1).
Crash ==
    /\ process = "running"
    /\ process' = "terminated"
    /\ UNCHANGED << fetch, envToken, localToken, nSessions, activeSseTransport, sessionUserMap,
                    currentFacebookAccessToken, messageBus, calls, reg, waits,
                    initialized, closedStreams, diag >>

\* ------------------------------------------------ read-only GET requests

\* The session_id query parameters of the modelled diagnostic lookups; 0: the
\* request carries none
LookupQueries == 0..MaxSessions

\* A change of DiagnosticAnswer: the lookup always answers not-found.
DiagnosticAnswerNotFound(map, q) ==
    [kind |-> "lookup", status |-> 404, query |-> q, body |-> {}]

\* GET /save-trigger-token-fetch: with a session_id the entry registered for
\* it or 404, without one all entries of the registry
DiagnosticAnswer(map, q) ==
    IF q # 0
    THEN IF Truthy(SessionLookup(map, q))
         THEN [kind |-> "lookup", status |-> 200, query |-> q, body |-> {<<q, map[q]>>}]
         ELSE [kind |-> "lookup", status |-> 404, query |-> q, body |-> {}]
    ELSE [kind |-> "lookup", status |-> 200, query |-> q,
          body |-> {<<k, map[k]>> : k \in DOMAIN map}]

DiagnosticLookup(q) ==
    /\ diag' = DiagnosticAnswer(sessionUserMap, q)
    /\ UNCHANGED << fetch, envToken, localToken, nSessions, activeSseTransport, sessionUserMap,
                    currentFacebookAccessToken, messageBus, calls, reg, waits,
                    initialized, closedStreams, process >>

\* adapters.mcp.getToolDefinitions(catalogue): name and inputSchema
McpToolDefinitions(catalogue) ==
    { [name |-> t,
       inputSchema |-> [type |-> "object", properties |-> Properties(t),
                        required |-> RequiredParams(t)]] : t \in catalogue }

\* adapters.openai.getToolDefinitions(catalogue): name and parameters
OpenAiToolDefinitions(catalogue) ==
    { [name |-> t,
       parameters |-> [type |-> "object", properties |-> Properties(t),
                       required |-> RequiredParams(t)]] : t \in catalogue }

\* A change of GeminiToolDefinitions: every parameter is listed as required.
GeminiToolDefinitionsAllRequired(catalogue) ==
    { [name |-> t,
       parameters |-> [type |-> "OBJECT", properties |-> Properties(t),
                       required |-> Properties(t)]] : t \in catalogue }

\* adapters.gemini.getToolDefinitions(catalogue): name and parameters in the
\* convention's own schema dialect
GeminiToolDefinitions(catalogue) ==
    { [name |-> t,
       parameters |-> [type |-> "OBJECT", properties |-> Properties(t),
                       required |-> RequiredParams(t)]] : t \in catalogue }

\* The definition-listing surfaces: the ListTools handler of the MCP server,
\* GET /openai/functions/definitions, GET /gemini/functions/definitions, and
\* GET /tools
Surfaces == {"mcp", "openai", "gemini", "tools"}

\* What a surface lists; each is called with TOOL_SCHEMAS, GET /tools maps
\* Object.keys(TOOL_SCHEMAS) to name and description.
SurfaceListing(surface) ==
    CASE surface = "mcp" -> McpToolDefinitions(CatalogueTools)
      [] surface = "openai" -> OpenAiToolDefinitions(CatalogueTools)
      [] surface = "gemini" -> GeminiToolDefinitions(CatalogueTools)
      [] surface = "tools" -> {[name |-> t, description |-> "text"] : t \in CatalogueTools}

ListDefinitions(surface) ==
    /\ diag' = [kind |-> "definitions", status |-> 200, query |-> surface,
                body |-> SurfaceListing(surface)]
    /\ UNCHANGED << fetch, envToken, localToken, nSessions, activeSseTransport, sessionUserMap,
                    currentFacebookAccessToken, messageBus, calls, reg, waits,
                    initialized, closedStreams, process >>

\* ------------------------------------------- fetchFacebookAccessToken

\* The userId arguments of the modelled invocations
FetchUserIds == {NONE, "", "u1", "u2"}

\* A change of EnvOverride: the environment token is never looked at first.
EnvOverrideNever(env) == FALSE

\* `if (process.env.FACEBOOK_ACCESS_TOKEN)`
EnvOverride(env) == Truthy(env)

\* fetchFacebookAccessToken(userId) up to its first await: with an environment
\* token it stores that token and returns; otherwise it awaits
\* TokenStorage.getToken().
FetchFacebookAccessToken(userId) ==
    /\ fetch.pc = "idle"
    /\ IF EnvOverride(envToken)
       THEN /\ currentFacebookAccessToken' = envToken
            /\ fetch' = [IdleFetch EXCEPT !.pc = "done", !.userId = userId, !.outcome = Ok]
       ELSE /\ currentFacebookAccessToken' = currentFacebookAccessToken
            /\ fetch' = [IdleFetch EXCEPT !.pc = "awaitStorage", !.userId = userId,
                                          !.storageReads = 1]
    /\ UNCHANGED << envToken, localToken, nSessions, activeSseTransport, sessionUserMap,
                    messageBus, calls, reg, waits, initialized, closedStreams, diag,
                    process >>

\* TokenStorage.getToken() has answered: a stored token is kept and returned;
\* without one and with a userId the token service is called; with neither
\* the method throws.
StorageReply ==
    /\ fetch.pc = "awaitStorage"
    /\ IF Truthy(localToken)
       THEN /\ currentFacebookAccessToken' = localToken
            /\ fetch' = [fetch EXCEPT !.pc = "done", !.outcome = Ok]
       ELSE /\ currentFacebookAccessToken' = currentFacebookAccessToken
            /\ fetch' = IF Truthy(fetch.userId)
                        THEN [fetch EXCEPT !.pc = "awaitService", !.networkCalls = 1]
                        ELSE [fetch EXCEPT !.pc = "done",
                                 !.outcome = Err("Error", <<"No Facebook access token available. Please login at /facebook-auth-helper">>)]
    /\ UNCHANGED << envToken, localToken, nSessions, activeSseTransport, sessionUserMap,
                    messageBus, calls, reg, waits, initialized, closedStreams, diag,
                    process >>

\* The token service has answered fetchFacebookAccessToken: a token is stored;
\* on a failure the catch branch falls back to the environment token when
\* there is one and rethrows otherwise.
ServiceReply(r) ==
    /\ fetch.pc = "awaitService"
    /\ IF TokenError(r).kind = "ok"
       THEN /\ currentFacebookAccessToken' = r.token
            /\ fetch' = [fetch EXCEPT !.pc = "done", !.outcome = Ok]
       ELSE IF Truthy(envToken)
       THEN /\ currentFacebookAccessToken' = envToken
            /\ fetch' = [fetch EXCEPT !.pc = "done", !.outcome = Ok]
       ELSE /\ currentFacebookAccessToken' = currentFacebookAccessToken
            /\ fetch' = [fetch EXCEPT !.pc = "done", !.outcome = TokenError(r)]
    /\ UNCHANGED << envToken, localToken, nSessions, activeSseTransport, sessionUserMap,
                    messageBus, calls, reg, waits, initialized, closedStreams, diag,
                    process >>

\* The access tokens the OAuth token exchange answers with
AuthTokens == {LocalToken, "T_oauth"}

\* GET /auth/callback with a code, when the token exchange answers with an
\* access token: the handler stores it with TokenStorage.storeToken.
AuthCallback(token) ==
    /\ localToken # token
    /\ localToken' = token
    /\ UNCHANGED << fetch, envToken, nSessions, activeSseTransport, sessionUserMap,
                    currentFacebookAccessToken, messageBus, calls, reg, waits,
                    initialized, closedStreams, diag, process >>

\* The caller has taken the invocation's result.
FinishFetch ==
    /\ fetch.pc = "done"
    /\ fetch' = IdleFetch
    /\ UNCHANGED << envToken, localToken, nSessions, activeSseTransport, sessionUserMap,
                    currentFacebookAccessToken, messageBus, calls, reg, waits,
                    initialized, closedStreams, diag, process >>

\* ------------------------------------------------- the routes of the app

\* The routes setupApiServer registers with this.apiServer.get and .post, in
\* the order of registration, each with the line of its registration
StaticRoutes ==
    << [method |-> "GET", path |-> "/mcp", line |-> 163],
       [method |-> "POST", path |-> "/mcp", line |-> 192],
       [method |-> "GET", path |-> "/", line |-> 234],
       [method |-> "GET", path |-> "/health", line |-> 244],
       [method |-> "GET", path |-> "/sse-test", line |-> 249],
       [method |-> "POST", path |-> "/openai/functions", line |-> 280],
       [method |-> "GET", path |-> "/openai/functions/definitions", line |-> 294],
       [method |-> "GET", path |-> "/.well-known/ai-plugin.json", line |-> 300],
       [method |-> "GET", path |-> "/.well-known/claude-manifest.json", line |-> 304],
       [method |-> "GET", path |-> "/manifest.json", line |-> 308],
       [method |-> "GET", path |-> "/test-manifest/:variant", line |-> 313],
       [method |-> "POST", path |-> "/test-manifest/:variant", line |-> 329],
       [method |-> "GET", path |-> "/claude/manifest", line |-> 385],
       [method |-> "GET", path |-> "/claude-manifest", line |-> 389],
       [method |-> "POST", path |-> "/gemini/functions", line |-> 394],
       [method |-> "GET", path |-> "/gemini/functions/definitions", line |-> 408],
       [method |-> "GET", path |-> "/tools", line |-> 414],
       [method |-> "POST", path |-> "/mcp", line |-> 423],
       [method |-> "GET", path |-> "/mcp", line |-> 482],
       [method |-> "GET", path |-> "/mcp/sse", line |-> 535],
       [method |-> "POST", path |-> "/tools/facebook_login", line |-> 585],
       [method |-> "POST", path |-> "/tools/facebook_logout", line |-> 597],
       [method |-> "POST", path |-> "/tools/facebook_check_auth", line |-> 609],
       [method |-> "POST", path |-> "/tools/facebook_list_ad_accounts", line |-> 621],
       [method |-> "POST", path |-> "/tools/facebook_fetch_pagination_url", line |-> 633],
       [method |-> "POST", path |-> "/tools/facebook_get_details_of_ad_account", line |-> 645],
       [method |-> "POST", path |-> "/tools/facebook_get_adaccount_insights", line |-> 657],
       [method |-> "POST", path |-> "/tools/facebook_get_activities_by_adaccount", line |-> 669],
       [method |-> "POST", path |-> "/tools/facebook_get_ad_creatives", line |-> 681],
       [method |-> "GET", path |-> "/mcp", line |-> 694],
       [method |-> "POST", path |-> "/mcp", line |-> 706],
       [method |-> "GET", path |-> "/mcp/start-auth/", line |-> 720],
       [method |-> "GET", path |-> "/mcp/auth-status/", line |-> 728],
       [method |-> "GET", path |-> "/auth/facebook", line |-> 737],
       [method |-> "GET", path |-> "/login", line |-> 742],
       [method |-> "GET", path |-> "/auth/callback", line |-> 758],
       [method |-> "GET", path |-> "/facebook-auth-helper", line |-> 807],
       [method |-> "POST", path |-> "/trigger-token-fetch", line |-> 977],
       [method |-> "GET", path |-> "/save-trigger-token-fetch", line |-> 1039],
       [method |-> "GET", path |-> "/getSession", line |-> 1079],
       [method |-> "POST", path |-> "/tools/facebook_list_ad_accounts", line |-> 1119],
       [method |-> "POST", path |-> "/tools/facebook_get_details_of_ad_account", line |-> 1128],
       [method |-> "POST", path |-> "/tools/facebook_get_adaccount_insights", line |-> 1137],
       [method |-> "POST", path |-> "/tools/facebook_get_ad_creatives", line |-> 1146],
       [method |-> "POST", path |-> "/tools/facebook_get_activities_by_adaccount", line |-> 1155],
       [method |-> "POST", path |-> "/tools/facebook_get_campaign_details", line |-> 1164],
       [method |-> "POST", path |-> "/tools/facebook_get_adset_details", line |-> 1173],
       [method |-> "POST", path |-> "/tools/facebook_get_creative_asset_url_by_ad_id", line |-> 1182] >>

\* The route stack after n requests were served by the first GET /mcp handler:
\* each of them registered one more GET /claude-manifest route (line 165).
Routes(n) ==
    StaticRoutes \o [i \in 1..n |-> [method |-> "GET", path |-> "/claude-manifest", line |-> 165]]

\* The methods and paths of the modelled requests
RequestMethods == {"GET", "POST"}
RequestPaths ==
    { "/", "/.well-known/ai-plugin.json", "/.well-known/claude-manifest.json",
      "/auth/callback", "/auth/facebook", "/claude-manifest",
      "/claude/manifest", "/facebook-auth-helper", "/gemini/functions",
      "/gemini/functions/definitions", "/getSession", "/health", "/login",
      "/manifest.json", "/mcp", "/mcp/auth-status/", "/mcp/auth-status",
      "/mcp/sse", "/mcp/start-auth/", "/mcp/start-auth", "/openai/functions",
      "/openai/functions/definitions", "/save-trigger-token-fetch", "/sse-test",
      "/test-manifest/a", "/tools", "/tools/facebook_check_auth",
      "/tools/facebook_fetch_pagination_url",
      "/tools/facebook_get_activities_by_adaccount",
      "/tools/facebook_get_ad_creatives",
      "/tools/facebook_get_adaccount_insights",
      "/tools/facebook_get_adset_details",
      "/tools/facebook_get_campaign_details",
      "/tools/facebook_get_creative_asset_url_by_ad_id",
      "/tools/facebook_get_details_of_ad_account",
      "/tools/facebook_list_ad_accounts", "/tools/facebook_login",
      "/tools/facebook_logout", "/trigger-token-fetch", "/unregistered" }

\* Whether a route's path pattern matches a request path: the same path, a
\* value for the :variant parameter, or the pattern without its trailing
\* slash (routing is not strict).
PathMatches(pattern, path) ==
    \/ pattern = path
    \/ pattern = "/test-manifest/:variant" /\ path = "/test-manifest/a"
    \/ pattern = "/mcp/start-auth/" /\ path = "/mcp/start-auth"
    \/ pattern = "/mcp/auth-status/" /\ path = "/mcp/auth-status"

RouteMatches(route, method, path) ==
    route.method = method /\ PathMatches(route.path, path)

\* A change of FirstMatch: the last matching registration is taken.
LastMatch(stack, i, method, path) ==
    IF \E j \in i..Len(stack) : RouteMatches(stack[j], method, path)
    THEN CHOOSE j \in i..Len(stack) :
            /\ RouteMatches(stack[j], method, path)
            /\ \A k \in i..Len(stack) : RouteMatches(stack[k], method, path) => k <= j
    ELSE 0

\* The router goes through the stack from position i and hands the request to
\* the first route that matches; 0: the end of the stack was reached. No
\* route handler of the file calls next(), so the scan ends at the first match.
RECURSIVE FirstMatch(_, _, _, _)
FirstMatch(stack, i, method, path) ==
    IF i > Len(stack) THEN 0
    ELSE IF RouteMatches(stack[i], method, path) THEN i
    ELSE FirstMatch(stack, i + 1, method, path)

\* The handlers that run for a request, as registrations of the stack; none
\* when no route matches and the default 404 answer is written
HandlersRun(stack, method, path) ==
    IF FirstMatch(stack, 1, method, path) = 0 THEN {}
    ELSE { [index |-> FirstMatch(stack, 1, method, path),
            line |-> stack[FirstMatch(stack, 1, method, path)].line] }

\* A request comes in and the router picks its handler. What the handler then
\* does is the handler's own action; here only the choice is recorded.
RouterDispatch(method, path) ==
    /\ diag' = [kind |-> "route",
                status |-> IF HandlersRun(Routes(nSessions), method, path) = {} THEN 404 ELSE 0,
                query |-> [method |-> method, path |-> path],
                body |-> HandlersRun(Routes(nSessions), method, path)]
    /\ UNCHANGED << fetch, envToken, localToken, nSessions, activeSseTransport, sessionUserMap,
                    currentFacebookAccessToken, messageBus, calls, reg, waits,
                    initialized, closedStreams, process >>

\* ------------------------------------------------- waitForUserResponse

\* A change of SettlePromise: a later resolve or reject replaces the outcome.
SettlePromiseLast(p, v) == v

\* resolve(v) / reject(e) of a promise: the first one settles it, a later one
\* changes nothing.
SettlePromise(p, v) == IF p.kind = "none" THEN v ELSE p

\* The promise executor of waitForUserResponse(timeoutMs): it rejects when no
\* stream is active; otherwise it captures the sessionId, registers
\* onUserMessage with this.messageBus.on and starts the timer. On an
\* undefined messageBus the .on call throws a TypeError, which rejects the
\* promise before the timer is started.
WaitExecutor(sessionId, bus) ==
    IF sessionId = 0
    THEN [IdleWait EXCEPT !.pc = "called",
             !.promise = Rejected("Error", <<"No active session for user response.">>)]
    ELSE IF bus = "undefined"
    THEN [IdleWait EXCEPT !.pc = "called", !.sessionId = sessionId,
             !.promise = Rejected("TypeError", <<"Cannot read properties of undefined">>)]
    ELSE [IdleWait EXCEPT !.pc = "called", !.sessionId = sessionId,
             !.listener = TRUE, !.timer = TRUE]

WaitForUserResponse(w) ==
    /\ waits[w].pc = "idle"
    /\ waits' = [waits EXCEPT ![w] = WaitExecutor(activeSseTransport, messageBus)]
    /\ UNCHANGED << fetch, envToken, localToken, nSessions, activeSseTransport, sessionUserMap,
                    currentFacebookAccessToken, messageBus, calls, reg,
                    initialized,
                    closedStreams, diag, process >>

\* The contents of the user messages the bus delivers
MessageContents == {"o1", ""}

\* A change of OnUserMessage: the listener takes a message of any session.
OnUserMessageAny(wait, msg) ==
    [wait EXCEPT !.listener = FALSE,
                 !.promise = SettlePromise(wait.promise, Resolved(msg.content))]

\* onUserMessage(msg) of one wait: for a message of its session it takes
\* itself off the bus and resolves with the content; it leaves the timer.
OnUserMessage(wait, msg) ==
    IF msg.sessionId = wait.sessionId
    THEN [wait EXCEPT !.listener = FALSE,
                      !.promise = SettlePromise(wait.promise, Resolved(msg.content))]
    ELSE wait

\* The bus emits 'user_message': every registered listener runs.
UserMessage(msg) ==
    /\ messageBus = "emitter"
    /\ waits' = [w \in WaitIds |->
                    IF waits[w].listener THEN OnUserMessage(waits[w], msg) ELSE waits[w]]
    /\ UNCHANGED << fetch, envToken, localToken, nSessions, activeSseTransport, sessionUserMap,
                    currentFacebookAccessToken, messageBus, calls, reg,
                    initialized,
                    closedStreams, diag, process >>

\* The setTimeout callback of one wait: it takes the listener off the bus and
\* rejects.
OnTimeout(wait) ==
    [wait EXCEPT !.timer = FALSE, !.listener = FALSE,
                 !.promise = SettlePromise(wait.promise,
                                           Rejected("Error", <<"User response timed out.">>))]

TimerFires(w) ==
    /\ waits[w].timer
    /\ waits' = [waits EXCEPT ![w] = OnTimeout(waits[w])]
    /\ UNCHANGED << fetch, envToken, localToken, nSessions, activeSseTransport, sessionUserMap,
                    currentFacebookAccessToken, messageBus, calls, reg,
                    initialized,
                    closedStreams, diag, process >>

\* The caller has taken the settled promise's value and nothing of the
\* invocation is left: no listener, no timer.
ReleaseWait(w) ==
    /\ waits[w].pc = "called"
    /\ waits[w].promise.kind # "none"
    /\ ~waits[w].listener /\ ~waits[w].timer
    /\ waits' = [waits EXCEPT ![w] = IdleWait]
    /\ UNCHANGED << fetch, envToken, localToken, nSessions, activeSseTransport, sessionUserMap,
                    currentFacebookAccessToken, messageBus, calls, reg,
                    initialized,
                    closedStreams, diag, process >>

\* waitForUserResponse exercised as a method: its receiver's messageBus is
\* either as the constructor leaves it (undefined) or an event emitter, the
\* streams come and go, and the bus delivers user messages of any session.
InitWait ==
    /\ InitServer
    /\ messageBus \in {"undefined", "emitter"}

NextWait ==
    \/ ConnectSse
    \/ \E w \in WaitIds : WaitForUserResponse(w)
    \/ \E sid \in SessionIds, m \in MessageContents :
          UserMessage([sessionId |-> sid, content |-> m])
    \/ \E w \in WaitIds : TimerFires(w)
    \/ \E w \in WaitIds : ReleaseWait(w)

SpecWait == InitWait /\ [][NextWait]_vars

\* The same with the timers doing their work: a timer started by setTimeout
\* fires once its delay has passed.
SpecWaitTimed == SpecWait /\ \A w \in WaitIds : WF_vars(TimerFires(w))

\* ------------------------------------------------------ the server

Next ==
    \/ (nSessions < SoloSessions /\ ConnectSse)
    \/ \E c \in SoloCalls, e \in Entries, t \in RequestTools, a \in RequestArgs :
          StartCall(c, e, t, a)
    \/ \E c \in SoloCalls, r \in FallbackResponses : FallbackReply(c, r)
    \/ \E c \in SoloCalls, r \in TokenResponses : TokenReply(c, r)
    \/ \E c \in SoloCalls : Dispatch(c)
    \/ \E c \in SoloCalls, r \in HandlerResults : HandlerReply(c, r)
    \/ \E c \in SoloCalls : FinishCall(c)
    \/ \E q \in RegRequests : TriggerTokenFetch(q)
    \/ \E r \in SaveResponses : SaveSessionReply(r)
    \/ FinishReg

Spec == Init /\ [][Next]_vars

\* The session-oriented entry points, one message at a time: the streams of
\* GET /mcp with their companion POST /mcp, POST /test-manifest/:variant, and
\* the message handler of the stream of GET /mcp/sse exercised as a handler.
InitRpc ==
    /\ Init
    /\ envToken = NONE /\ localToken = NONE

NextRpc ==
    \/ ConnectSse
    \/ \E c \in SoloCalls, m \in RpcMessages : ManifestMessage(c, m)
    \/ \E c \in SoloCalls, sid \in SessionIds, m \in RpcMessages : SseMessage(c, sid, m)
    \/ \E c \in SoloCalls, sid \in 0..MaxSessions, m \in McpMessages : PostMcp(c, sid, m)
    \/ \E c \in SoloCalls, r \in FallbackResponses : FallbackReply(c, r)
    \/ \E c \in SoloCalls, r \in TokenResponses : TokenReply(c, r)
    \/ \E c \in SoloCalls : Dispatch(c)
    \/ \E c \in SoloCalls, r \in HandlerResults : HandlerReply(c, r)
    \/ \E c \in SoloCalls : FinishCall(c)

SpecRpc == InitRpc /\ [][NextRpc]_vars

\* Overlapping tools/call messages on the stream handler: a second message
\* arrives while the first one's executeToolCall is suspended, and the two
\* complete in any order.
OverlapMessages == {m \in RpcMessages : m.method = "tools/call"}

NextOverlap ==
    \/ \E c \in CallIds, sid \in SoloStreams, m \in OverlapMessages : SseMessage(c, sid, m)
    \/ \E c \in CallIds, r \in FallbackResponses : FallbackReply(c, r)
    \/ \E c \in CallIds, r \in TokenResponses : TokenReply(c, r)
    \/ \E c \in CallIds : Dispatch(c)
    \/ \E c \in CallIds, r \in HandlerResults : HandlerReply(c, r)
    \/ \E c \in CallIds : FinishCall(c)

SpecOverlap == InitRpc /\ [][NextOverlap]_vars

\* Streams, registrations and the registry's readers next to calls that
\* arrive on the stateless entry points.
StatelessEntries == {"openai", "gemini", "rest"}

NextSession ==
    \/ ConnectSse
    \/ \E sid \in SessionIds : CloseStream(sid)
    \/ \E q \in RegRequests : TriggerTokenFetch(q)
    \/ \E r \in SaveResponses : SaveSessionReply(r)
    \/ FinishReg
    \/ \E c \in SoloCalls, e \in StatelessEntries :
          StartCall(c, e, "facebook_list_ad_accounts", ArgsOrg)
    \/ \E c \in SoloCalls, r \in FallbackResponses : FallbackReply(c, r)
    \/ \E c \in SoloCalls, r \in TokenResponses : TokenReply(c, r)
    \/ \E c \in SoloCalls : Dispatch(c)
    \/ \E c \in SoloCalls, r \in HandlerResults : HandlerReply(c, r)
    \/ \E c \in SoloCalls : FinishCall(c)

SpecSession == InitRpc /\ [][NextSession]_vars

\* The read-only GET requests next to the streams and registrations that
\* fill the registry.
NextRead ==
    \/ ConnectSse
    \/ \E q \in RegRequests : TriggerTokenFetch(q)
    \/ \E r \in SaveResponses : SaveSessionReply(r)
    \/ FinishReg
    \/ \E q \in LookupQueries : DiagnosticLookup(q)
    \/ \E f \in Surfaces : ListDefinitions(f)

SpecRead == InitRpc /\ [][NextRead]_vars

\* The process with its exit: requests are handled while it runs, and a
\* failure outside any request ends it.
ProcessArgs == {ArgsEmpty, ArgsOrg}

NextProcess ==
    \/ Crash
    \/ (process = "running" /\ ConnectSse)
    \/ (process = "running" /\
          \E c \in SoloCalls, e \in Entries, a \in ProcessArgs :
              StartCall(c, e, "facebook_list_ad_accounts", a))
    \/ (process = "running" /\
          \E c \in SoloCalls, r \in FallbackResponses : FallbackReply(c, r))
    \/ (process = "running" /\ \E c \in SoloCalls, r \in TokenResponses : TokenReply(c, r))
    \/ (process = "running" /\ \E c \in SoloCalls : Dispatch(c))
    \/ (process = "running" /\ \E c \in SoloCalls, r \in HandlerResults : HandlerReply(c, r))
    \/ (process = "running" /\ \E c \in SoloCalls : FinishCall(c))

SpecProcess == InitRpc /\ [][NextProcess]_vars

\* Overlapping requests on the adapters' entry points, the credential service
\* answering each call for its own organization and identity.
AdapterEntries == {"mcp", "openai", "gemini"}

NextFunctions ==
    \/ \E c \in CallIds, e \in AdapterEntries, v \in Envelopes : AdapterRequest(c, e, v)
    \/ \E c \in CallIds : \E r \in OrgFallbackResponses(calls[c]) : FallbackReply(c, r)
    \/ \E c \in CallIds : \E r \in IdentityTokenResponses(calls[c]) : TokenReply(c, r)
    \/ \E c \in CallIds : Dispatch(c)
    \/ \E c \in CallIds, r \in HandlerResults : HandlerReply(c, r)
    \/ \E c \in CallIds : FinishCall(c)

SpecFunctions == InitRpc /\ [][NextFunctions]_vars

\* fetchFacebookAccessToken exercised as a method (no caller is left in the
\* file): any environment token, any userId argument and any answer of the
\* token service, while the OAuth callback may store a token.
NextTiered ==
    \/ \E u \in FetchUserIds : FetchFacebookAccessToken(u)
    \/ StorageReply
    \/ \E r \in TokenResponses : ServiceReply(r)
    \/ FinishFetch
    \/ \E t \in AuthTokens : AuthCallback(t)

SpecTiered == Init /\ [][NextTiered]_vars

\* The router at work while streams are opened: every request method and path.
NextRoutes ==
    \/ ConnectSse
    \/ \E m \in RequestMethods, p \in RequestPaths : RouterDispatch(m, p)

SpecRoutes == Init /\ [][NextRoutes]_vars

\* ================================================================ claims

\* A call that is inside executeToolCall or has just been answered
Active(c) == calls[c].pc # "idle"

\* C1 (as claimed): whenever FACEBOOK_ACCESS_TOKEN is configured, every tool
\* handler is invoked with that override token.
C1_OverrideTokenReachesHandler ==
    \A c \in CallIds :
        (envToken = EnvToken /\ calls[c].pc = "awaitHandler") => calls[c].token = EnvToken

\* C2: a call without organization_id fails, and on the way no fallback
\* lookup, no token fetch and no handler call is made; this holds whether or
\* not a stream is active, in particular when none is.
C2_MissingOrgFailsWithoutExternalCalls ==
    \A c \in CallIds :
        (Active(c) /\ ~Truthy(Arg(calls[c].args, "organization_id"))) =>
            /\ calls[c].pc = "done"
            /\ calls[c].outcome.kind = "error"
            /\ calls[c].fallbackCalls = 0
            /\ calls[c].tokenCalls = 0
            /\ calls[c].handlerCalls = 0

\* C2's case: a call without organization_id has failed while no stream was
\* ever opened.
C2_Witness ==
    \E c \in CallIds :
        /\ calls[c].pc = "done" /\ calls[c].outcome.kind = "error"
        /\ ~Truthy(Arg(calls[c].args, "organization_id"))
        /\ nSessions = 0 /\ activeSseTransport = 0

\* C3: when the registry lookup for the active connection's sessionId finds a
\* caller, identity resolution returns that caller (it is the identity handed
\* on to the token fetch) and the fallback lookup is never called.
C3_RegisteredSessionShortCircuits ==
    \A c \in CallIds :
        Truthy(calls[c].sessionUser) =>
            /\ calls[c].userId = calls[c].sessionUser
            /\ calls[c].fallbackCalls = 0
            /\ calls[c].pc \in {"awaitToken", "dispatch", "awaitHandler"}

\* C3's case: a stream is active, the registry holds an entry for its
\* sessionId, and a call carrying an organization_id has resolved its identity
\* from that entry.
C3_Witness ==
    \E c \in CallIds :
        /\ activeSseTransport # 0
        /\ activeSseTransport \in DOMAIN sessionUserMap
        /\ calls[c].pc = "awaitToken"
        /\ Truthy(Arg(calls[c].args, "organization_id"))
        /\ calls[c].sessionUser = sessionUserMap[activeSseTransport]
        /\ calls[c].userId = sessionUserMap[activeSseTransport]

\* C4 (as claimed): a call for a tool name outside the catalogue (the
\* reflective '_list_tools' aside) ends in 'Unknown tool: <name>', whatever
\* the entry point and the state of credential resolution.
C4_UncataloguedToolEndsUnknown ==
    \A c \in CallIds :
        ( /\ calls[c].pc = "done"
          /\ calls[c].toolName \notin CatalogueTools \cup {"_list_tools"} ) =>
            calls[c].outcome = Err("Error", <<"Unknown tool: ", calls[c].toolName>>)

\* C5 (as claimed): a '_list_tools' call performs no credential resolution
\* step and succeeds in every state.
C5_ListToolsBypassesResolution ==
    \A c \in CallIds :
        (Active(c) /\ calls[c].toolName = "_list_tools") =>
            /\ calls[c].pc = "done" /\ calls[c].outcome.kind = "ok"
            /\ calls[c].prompts = 0 /\ calls[c].fallbackCalls = 0
            /\ calls[c].tokenCalls = 0

\* C6 (as claimed): a wait for a session that fails without a reply fails with
\* the user-response-timeout error, and its listener is off the bus.
C6_NoReplyEndsInTimeout ==
    \A w \in WaitIds :
        (waits[w].sessionId # 0 /\ waits[w].promise.kind = "rejected") =>
            /\ waits[w].promise.msg = <<"User response timed out.">>
            /\ ~waits[w].listener

C8_InvalidArgsNeverReachHandler ==
    \A c \in CallIds :
        ( /\ calls[c].toolName \in CatalogueTools
          /\ SchemaViolations(calls[c].toolName, calls[c].args) # {} ) =>
            calls[c].handlerCalls = 0

\* C9: when a tool handler raises, executeToolCall fails with that error, its
\* message unchanged, and the entry point's response is an error response
\* carrying that message.
C9_HandlerErrorPassesThrough ==
    \A c \in CallIds :
        (calls[c].pc = "done" /\ calls[c].raised # << >>) =>
            /\ calls[c].outcome = Err("Error", calls[c].raised)
            /\ calls[c].response.kind = "error"
            /\ calls[c].response.message = calls[c].raised

\* C9's case: a handler was invoked and raised, and the call was answered.
C9_Witness ==
    \E c \in CallIds :
        /\ calls[c].pc = "done" /\ calls[c].handlerCalls = 1
        /\ calls[c].raised \in {<<m>> : m \in HandlerMessages}

\* C10 (as claimed): with no override configured and a locally cached
\* credential, a call makes no fallback lookup and no token-service call, and
\* the handler gets the cached credential.
C10_CachedCredentialUsed ==
    \A c \in CallIds :
        (envToken = NONE /\ localToken = LocalToken) =>
            /\ calls[c].fallbackCalls = 0
            /\ calls[c].tokenCalls = 0
            /\ calls[c].pc = "awaitHandler" => calls[c].token = LocalToken

\* C11 (as claimed): a tool call without organization_id that arrives while a
\* connection is active sends exactly one prompt message on that connection's
\* session (and then waits for the reply).
C11_PromptSentOnActiveConnection ==
    [][ \A c \in CallIds :
          ( /\ calls[c].pc = "idle" /\ calls'[c].pc # "idle"
            /\ activeSseTransport # 0
            /\ ~Truthy(Arg(calls'[c].args, "organization_id")) ) =>
              calls'[c].prompts = 1 ]_vars

\* C12 (as claimed): once the registration endpoint has accepted a request
\* with user_id u and session identifier s, the registry returns u for s; in
\* particular the registry holds an entry whose value is u.
C12_RegistrationMapsSessionToUser ==
    reg.status = 200 =>
        \E k \in DOMAIN sessionUserMap : sessionUserMap[k] = reg.user_id

\* The answers of the fallback lookup that are failures: a transport or HTTP
\* error, a success flag of false, no caller returned.
C13_FallbackFailed(r) ==
    r.kind = "transportError" \/ ~r.ok \/ ~r.success \/ ~Truthy(r.user_id)

\* C13: when the session is not registered and the fallback lookup fails, the
\* call fails at that point: it is answered with an error, the token service
\* has not been called and no handler has been invoked.
C13_FallbackFailureEndsCall ==
    [][ \A c \in CallIds : \A r \in FallbackResponses :
          (FallbackReply(c, r) /\ C13_FallbackFailed(r)) =>
              /\ calls'[c].pc = "done"
              /\ calls'[c].outcome.kind = "error"
              /\ calls'[c].tokenCalls = 0
              /\ calls'[c].handlerCalls = 0 ]_vars

\* C13's case: a call with an unregistered session has asked the fallback
\* lookup once and was ended by its failure.
C13_Witness ==
    \E c \in CallIds :
        /\ calls[c].pc = "done"
        /\ calls[c].fallbackCalls = 1 /\ calls[c].tokenCalls = 0
        /\ calls[c].outcome \in
              { Err("Error", <<"HTTP error from fallback API">>),
                Err("Error", <<"No valid session found for organization ID.">>),
                Err("TypeError", <<"fetch failed">>) }

\* The answers of the token service that are failures: a transport error, a
\* non-success status, a success flag of false, no facebook_access_token.
C14_TokenFailed(r) ==
    r.kind = "transportError" \/ ~r.ok \/ ~r.success \/ ~Truthy(r.token)

\* C14: when the token service's answer is a failure, the call is answered
\* with an error and no handler has been invoked for it; the stored token is
\* left as it was.
C14_TokenFailureEndsCall ==
    [][ \A c \in CallIds : \A r \in TokenResponses :
          (TokenReply(c, r) /\ C14_TokenFailed(r)) =>
              /\ calls'[c].pc = "done"
              /\ calls'[c].outcome.kind = "error"
              /\ calls'[c].handlerCalls = 0 ]_vars

\* C14's case: a call has asked the token service and was ended by its
\* failure, while a token of an earlier call is still stored.
C14_Witness ==
    \E c \in CallIds :
        /\ calls[c].pc = "done" /\ calls[c].tokenCalls = 1
        /\ calls[c].handlerCalls = 0
        /\ calls[c].outcome \in
              { Err("Error", <<"Failed to fetch Facebook token">>),
                Err("Error", <<"Token not present in response">>) }
        /\ currentFacebookAccessToken \in ServiceTokens

\* C15: within one call nothing of credential resolution is repeated: at most
\* one prompt, one fallback lookup and one token-service call; and a call that
\* holds an error has ended.
C15_ResolutionNeverRetries ==
    \A c \in CallIds :
        /\ calls[c].prompts <= 1
        /\ calls[c].fallbackCalls <= 1
        /\ calls[c].tokenCalls <= 1
        /\ calls[c].outcome.kind = "error" => calls[c].pc = "done"

\* C15's case: a call went through the fallback lookup and the token service,
\* once each, and the token service's failure ended it.
C15_Witness ==
    \E c \in CallIds :
        /\ calls[c].pc = "done" /\ calls[c].outcome.kind = "error"
        /\ calls[c].fallbackCalls = 1 /\ calls[c].tokenCalls = 1
        /\ calls[c].handlerCalls = 0

\* C16 (as claimed): every JSON-RPC response of the session-oriented handlers
\* carries the id of the request it answers, unchanged, whatever id the
\* caller supplied.
C16_ResponseEchoesRequestId ==
    \A c \in CallIds :
        ( /\ calls[c].entry \in {"testManifest", "sse"}
          /\ calls[c].pc = "done"
          /\ calls[c].response.kind # "none" ) =>
            calls[c].response.id = calls[c].id

\* C17 (as claimed): on the session-oriented entry points no tool is executed
\* for a session whose initialize request has not been answered.
C17_NoToolBeforeInitialize ==
    \A c \in CallIds :
        ( /\ calls[c].entry \in {"testManifest", "sse"}
          /\ calls[c].handlerCalls > 0 ) =>
            Place(calls[c]) \in initialized

\* C18 (as claimed): the one-way notifications/initialized acknowledgment is
\* answered with no JSON-RPC message, neither a result nor an error body, and
\* executes no tool.
C18_InitializedAckGetsNoResponse ==
    \A c \in CallIds :
        (calls[c].method = "notifications/initialized" /\ calls[c].pc = "done") =>
            /\ calls[c].response.kind = "none"
            /\ calls[c].fallbackCalls = 0 /\ calls[c].tokenCalls = 0
            /\ calls[c].handlerCalls = 0

\* C19 (as claimed): a message delivered by POST /mcp is handled by the open
\* stream of the session it was sent for, also when several streams are open;
\* without any stream the POST is answered with an error and executes no tool.
C19_PostHandledByOwnStream ==
    \A c \in CallIds :
        (calls[c].entry = "mcp" /\ Active(c)) =>
            /\ calls[c].via = calls[c].session
            /\ calls[c].via = 0 =>
                  /\ calls[c].pc = "done" /\ calls[c].response.kind = "error"
                  /\ calls[c].fallbackCalls = 0 /\ calls[c].tokenCalls = 0
                  /\ calls[c].handlerCalls = 0

\* C20: when tools/call messages overlap on one stream and complete in any
\* order, the response of each carries the id of its own request together with
\* its own call's result or error.
C20_ResponseCarriesOwnId ==
    \A c \in CallIds :
        ( /\ calls[c].entry = "sse" /\ calls[c].method = "tools/call"
          /\ calls[c].pc = "done" ) =>
            /\ calls[c].response.kind \in {"result", "error"}
            /\ calls[c].response.id = calls[c].id
            /\ calls[c].response.kind = "error" <=> calls[c].outcome.kind = "error"
            /\ calls[c].response.message = calls[c].outcome.msg

\* C20's case: two tools/call messages with different ids are on the same
\* stream, one has been answered while the other, which reached the token
\* service, is still suspended.
C20_Witness ==
    \E c, d \in CallIds :
        /\ c # d
        /\ calls[c].entry = "sse" /\ calls[d].entry = "sse"
        /\ calls[c].session = calls[d].session
        /\ calls[c].id # calls[d].id
        /\ calls[c].pc = "done" /\ calls[c].handlerCalls = 1
        /\ calls[d].pc = "awaitHandler"

\* C21 (as claimed): every response of POST /openai/functions to a request
\* whose envelope was parsed is formatted with the call identifier of that
\* same request, for every interleaving of overlapping requests.
C21_ResponseEchoesCallId ==
    \A c \in CallIds :
        ( /\ calls[c].entry = "openai" /\ calls[c].pc = "done"
          /\ calls[c].outcome.name # "MalformedRequest" ) =>
            calls[c].response.id = calls[c].id

C23_ClosedStreamNotUsed ==
    [][ \A c \in CallIds :
          ( /\ calls[c].pc = "idle" /\ calls'[c].pc # "idle"
            /\ activeSseTransport \in closedStreams ) =>
              ~Truthy(calls'[c].sessionUser) ]_vars

\* C24 (as claimed): the identity resolved for a call on a stateless entry
\* point does not depend on another caller's stream or registration: it is
\* what the fallback lookup answered for the call's own organization.
C24_StatelessIdentityIsOwn ==
    \A c \in CallIds :
        ( /\ calls[c].entry \in StatelessEntries
          /\ calls[c].pc = "awaitToken" ) =>
            /\ ~Truthy(calls[c].sessionUser)
            /\ calls[c].userId \in FallbackSessionIds \cup {NONE}

\* C25 (as claimed): when the fallback lookup succeeds, the identity handed to
\* the token service is the caller (user_id) the lookup returned.
C25_FallbackIdentityIsUser ==
    [][ \A c \in CallIds : \A r \in FallbackResponses :
          ( /\ FallbackReply(c, r)
            /\ r.kind = "http" /\ r.ok /\ r.success /\ Truthy(r.user_id) ) =>
              /\ calls'[c].pc = "awaitToken"
              /\ calls'[c].userId = r.user_id ]_vars

\* C26: registry entries are never removed: every key present stays present
\* in every later state, with one value per key.
C26_RegistryOnlyGrows ==
    [][ DOMAIN sessionUserMap \subseteq DOMAIN sessionUserMap' ]_vars

\* C26's case: registrations were accepted under two different keys and both
\* entries are in the registry.
C26_Witness ==
    /\ Cardinality(DOMAIN sessionUserMap) >= 2
    /\ reg.pc = "awaitSave"

\* C27: the diagnostic lookup changes neither the registry nor any credential
\* state; with a session_id it answers with the entry registered for it or
\* with not-found, without one with exactly the entries of the registry.
C27_LookupReadsOnly ==
    [][ \A q \in LookupQueries :
          DiagnosticLookup(q) =>
              /\ UNCHANGED << sessionUserMap, currentFacebookAccessToken, envToken,
                              localToken, activeSseTransport, calls, reg >>
              /\ diag'.query = q
              /\ (q # 0 /\ q \in DOMAIN sessionUserMap) =>
                    diag'.status = 200 /\ diag'.body = {<<q, sessionUserMap[q]>>}
              /\ (q # 0 /\ q \notin DOMAIN sessionUserMap) =>
                    diag'.status = 404 /\ diag'.body = {}
              /\ q = 0 =>
                    /\ diag'.status = 200
                    /\ diag'.body = {<<k, sessionUserMap[k]>> : k \in DOMAIN sessionUserMap} ]_vars

\* C27's case: the lookup has answered with the entry registered for a
\* stream's sessionId.
C27_Witness ==
    /\ diag.kind = "lookup" /\ diag.status = 200 /\ diag.query # 0
    /\ diag.query \in DOMAIN sessionUserMap
    /\ diag.body = {<<diag.query, sessionUserMap[diag.query]>>}

\* The tool names a listing exposes, and for each of its parameters whether
\* it is required
C29_Names(listing) == {d.name : d \in listing}
C29_McpFlags(listing) ==
    UNION { {<<d.name, p, p \in d.inputSchema.required>> : p \in d.inputSchema.properties} :
            d \in listing }
C29_FunctionFlags(listing) ==
    UNION { {<<d.name, p, p \in d.parameters.required>> : p \in d.parameters.properties} :
            d \in listing }

C28_FatalOnlyOutsideRequests ==
    [][ /\ process = "running"
        /\ \A c \in CallIds :
              (calls[c].outcome.kind # "error" /\ calls'[c].outcome.kind = "error") =>
                  /\ process' = "running"
                  /\ calls'[c].pc = "done"
                  /\ calls'[c].response.kind = "error" ]_vars

\* C28's case: the process has terminated after a failed request had been
\* answered with an error response.
C28_Witness ==
    /\ process = "terminated"
    /\ \E c \in CallIds :
          /\ calls[c].pc = "done" /\ calls[c].outcome.kind = "error"
          /\ calls[c].response.kind = "error"

\* C30 (as claimed): when calls with different identities overlap, each
\* handler is invoked with the token that was fetched for its own call's
\* identity.
C30_HandlerGetsOwnToken ==
    \A c \in CallIds :
        calls[c].pc = "awaitHandler" => calls[c].token = IdentityToken(calls[c].userId)

C32_OtherSessionLeavesWait ==
    [][ \A w \in WaitIds : \A sid \in SessionIds, m \in MessageContents :
          ( /\ UserMessage([sessionId |-> sid, content |-> m])
            /\ waits[w].listener /\ sid # waits[w].sessionId ) =>
              waits'[w] = waits[w] ]_vars

\* C32's case: a wait registered for the first stream is still pending with
\* its listener on the bus after the connection was replaced and a reply of
\* the second stream's session settled another wait.
C32_Witness ==
    \E w, x \in WaitIds :
        /\ waits[w].listener /\ waits[w].promise.kind = "none"
        /\ waits[w].sessionId # activeSseTransport
        /\ waits[x].sessionId = activeSseTransport
        /\ waits[x].promise.kind = "resolved"

\* C33: fetchFacebookAccessToken resolves in tier order: with an environment
\* token it returns that token and neither reads the token store nor calls the
\* token service; otherwise a stored token is returned without a call of the
\* token service; otherwise, with a userId, the token service is called; with
\* none of the three it fails with 'No Facebook access token available' and
\* the token service is not called.
C33_TieredOrder ==
    [][ /\ \A u \in FetchUserIds :
              FetchFacebookAccessToken(u) =>
                  IF Truthy(envToken)
                  THEN /\ fetch'.pc = "done" /\ fetch'.outcome = Ok
                       /\ currentFacebookAccessToken' = envToken
                       /\ fetch'.storageReads = 0 /\ fetch'.networkCalls = 0
                  ELSE /\ fetch'.pc = "awaitStorage"
                       /\ fetch'.storageReads = 1 /\ fetch'.networkCalls = 0
        /\ StorageReply =>
              IF Truthy(localToken)
              THEN /\ fetch'.pc = "done" /\ fetch'.outcome = Ok
                   /\ currentFacebookAccessToken' = localToken
                   /\ fetch'.networkCalls = 0
              ELSE IF Truthy(fetch.userId)
              THEN fetch'.pc = "awaitService" /\ fetch'.networkCalls = 1
              ELSE /\ fetch'.pc = "done" /\ fetch'.networkCalls = 0
                   /\ fetch'.outcome =
                          Err("Error", <<"No Facebook access token available. Please login at /facebook-auth-helper">>) ]_vars

\* C33's case: with no environment token, no stored token and no userId the
\* invocation has failed after one read of the token store and no call of the
\* token service.
C33_Witness ==
    /\ envToken = NONE /\ localToken = NONE /\ ~Truthy(fetch.userId)
    /\ fetch.pc = "done" /\ fetch.outcome.kind = "error"
    /\ fetch.storageReads = 1 /\ fetch.networkCalls = 0

\* C34 (as claimed): every key of the registry is a defined session
\* identifier, also when the registration ran with no stream open.
C34_RegistryKeysDefined ==
    \A k \in DOMAIN sessionUserMap : k \in SessionIds

\* C35: the registration writes its entry before it forwards the session to
\* the credential service, and the entry stays when the forward fails or
\* answers success=false: the response is an error and the registry keeps the
\* mapping.
C35_EntryKeptOnFailedSave ==
    /\ [] ( reg.pc = "awaitSave" =>
               \E k \in DOMAIN sessionUserMap : sessionUserMap[k] = reg.sessionId )
    /\ [][ \A r \in SaveResponses :
              (SaveSessionReply(r) /\ r # "success") =>
                  /\ reg'.pc = "done" /\ reg'.status = 500
                  /\ sessionUserMap' = sessionUserMap
                  /\ \E k \in DOMAIN sessionUserMap' :
                        sessionUserMap'[k] = reg.sessionId ]_vars

\* C35's case: the forward has failed, the request was answered 500 and the
\* registry holds the request's entry.
C35_Witness ==
    /\ reg.pc = "done" /\ reg.status = 500
    /\ \E k \in DOMAIN sessionUserMap : sessionUserMap[k] = reg.sessionId

\* C36: a registration request without access_token or user_id, or without a
\* session identifier in its header or cookie, is answered 400, leaves the
\* registry as it is and does not call the credential service's session-save.
C36_RejectedRegistrationHasNoEffect ==
    [][ \A q \in RegRequests :
          ( /\ TriggerTokenFetch(q)
            /\ (q.access_token = NONE \/ q.user_id = NONE \/ q.sessionId = NONE) ) =>
              /\ reg'.pc = "done" /\ reg'.status = 400
              /\ sessionUserMap' = sessionUserMap ]_vars

\* C36's case: a request was rejected with 400 and the registry is empty.
C36_Witness ==
    /\ reg.pc = "done" /\ reg.status = 400
    /\ sessionUserMap = << >>

\* C37: every tool of the catalogue has a case in executeToolCall's switch: a
\* call for a catalogue tool that reaches the switch is handed to the tool's
\* handler and does not end in 'Unknown tool'; outside the catalogue the
\* switch accepts only '_list_tools' and 'facebook_get_ad_thumbnails', and the
\* latter always fails.
C37_CatalogueToolsAreHandled ==
    [][ /\ CatalogueTools \subseteq HandledTools
        /\ \A c \in CallIds :
              Dispatch(c) =>
                  CASE calls[c].toolName \in CatalogueTools ->
                          /\ calls'[c].pc = "awaitHandler"
                          /\ calls'[c].handlerCalls = 1
                    [] calls[c].toolName = "_list_tools" ->
                          calls'[c].pc = "done" /\ calls'[c].outcome = Ok
                    [] calls[c].toolName = "facebook_get_ad_thumbnails" ->
                          /\ calls'[c].pc = "done" /\ calls'[c].outcome.kind = "error"
                          /\ calls'[c].handlerCalls = 0
                    [] OTHER ->
                          /\ calls'[c].pc = "done" /\ calls'[c].handlerCalls = 0
                          /\ calls'[c].outcome =
                                Err("Error", <<"Unknown tool: ", calls[c].toolName>>) ]_vars

\* C37's case: a call for a catalogue tool has passed credential resolution
\* and its handler has been called.
C37_Witness ==
    \E c \in CallIds :
        /\ calls[c].toolName = "facebook_fetch_pagination_url"
        /\ calls[c].pc = "awaitHandler" /\ calls[c].tokenCalls = 1
        /\ calls[c].handlerCalls = 1

\* C38 (as claimed): a session-oriented request with a method other than
\* initialize, notifications/initialized, tools/list and tools/call is
\* answered with the error code -32601 and its own id, without a tool call or
\* a resolution step; a failure raised while a supported method is handled is
\* answered with the error code -32603 and the failure's message.
C38_RpcErrorCodes ==
    \A c \in CallIds :
        (calls[c].pc = "done" /\ calls[c].entry \in {"testManifest", "sse", "mcp"}) =>
            IF calls[c].method \notin {"initialize", "notifications/initialized",
                                       "tools/list", "tools/call"}
            THEN /\ calls[c].response.kind = "error"
                 /\ calls[c].response.code = -32601
                 /\ calls[c].response.id = calls[c].id
                 /\ calls[c].handlerCalls = 0 /\ calls[c].fallbackCalls = 0
                 /\ calls[c].tokenCalls = 0 /\ calls[c].prompts = 0
            ELSE calls[c].outcome.kind = "error" =>
                    /\ calls[c].response.kind = "error"
                    /\ calls[c].response.code = -32603
                    /\ calls[c].response.message = calls[c].outcome.msg

====
